---- MODULE Spec2Model ----
(***************************************************************************)
(* A model of kakuteki/emg_2_pose:                                         *)
(*   dataloader.py            HandDataLoader (CSV loader with two slots)   *)
(*   sample_app.py            three figure-producing functions             *)
(*   fft/emg_fft_analysis.py  the spectral analyzer script                 *)
(*                                                                         *)
(* A file path is modelled by what it resolves to when pd.read_csv opens   *)
(* it (a File record).  Console output is a sequence of line tags.         *)
(* Frequencies are exact rationals: a bin frequency i*SAMPLING_RATE/n is   *)
(* kept as the numerator i*SAMPLING_RATE over the denominator n.           *)
(***************************************************************************)
EXTENDS Integers, Sequences, FiniteSets, TLC

VARIABLES
    \* ---- one HandDataLoader instance driven by arbitrary calls ----
    loader,      \* [hand_data, emg_data]: the instance's two slots
    ret,         \* what the last call returned
    out,         \* the lines the last call printed
    raised,      \* the exception that escaped the last call, or "none"
    last,        \* the last call: [op, hand, emg] (the files its paths name)
    ok_hand,     \* the table of the most recent readable hand file, or None
    ok_emg,      \* the table of the most recent readable EMG file, or None
    calls,       \* the number of calls made so far
    \* ---- sample_app.py run as a script ----
    app_pc,      \* which function __main__ calls next
    app_last,    \* the outcome of the function that ran last
    saved,       \* the PNG files written so far
    \* ---- fft/emg_fft_analysis.py run as a script ----
    fft_pc,      \* position in the script
    fft_file,    \* what FILENAME resolves to
    df,          \* the script's df: Unbound until read_csv returns
    emg_column,  \* EMG_COLUMN
    n,           \* len(emg_data)
    xf,          \* numerators of the frequency axis (denominator n)
    psd,         \* the magnitude array
    report,      \* per band, the line the textual report printed
    annot,       \* per band, the annotation placed in the plot
    fft_exc,     \* the exception on its way to the script's handlers
    fft_out,     \* the error lines the script printed
    fft_escaped, \* the exception that left the script's handlers, or "none"
    fft_saved,   \* emg_fft_analysis.png was written
    \* ---- the band test applied to one frequency value ----
    x_num,       \* a frequency value x = x_num / FreqDen
    band_pc,     \* "start" until the band test has been applied to x
    hit          \* the bands whose test selects x

loaderVars == <<loader, ret, out, raised, last, ok_hand, ok_emg, calls>>
appVars    == <<app_pc, app_last, saved>>
fftVars    == <<fft_pc, fft_file, df, emg_column, n, xf, psd, report, annot,
                fft_exc, fft_out, fft_escaped, fft_saved>>
bandVars   == <<x_num, band_pc, hit>>
vars       == <<loaderVars, appVars, fftVars, bandVars>>

-----------------------------------------------------------------------------
(* Bounds *)

\* the number of calls made on one loader instance
MaxCalls == 3
\* the number of rows of a hand-pose table
MaxRows == 3
\* the number of samples in the EMG column given to the analyzer
MaxN == 20
\* the sum of the magnitudes of the spectral bins (each is a natural number)
MaxTotalMag == 4
\* frequency values are the multiples of 1/FreqDen Hz in [0, 500]
FreqDen == 2

-----------------------------------------------------------------------------
(* Values *)

NoneVal == [kind |-> "None"]
Unbound == [kind |-> "unbound"]

\* The columns the sample application reads from each table.
HandCols == {"timestamp", "is_left", "thumb_mcp_quat_0",
             "index_mcp_quat_0", "index_pip_quat_0", "index_dip_quat_0"}
EmgCols  == {"Timestamp", "Sensor_1", "Sensor_2", "Sensor_3", "Sensor_4",
             "Sensor_5", "Sensor_6", "Sensor_7", "Sensor_8"}

\* What a path can resolve to.
MissingFile   == [kind |-> "missing"]
MalformedFile == [kind |-> "malformed"]
EmptyFile     == [kind |-> "empty"]
CsvFile(id, cols, nrows, is_left) ==
    [kind |-> "csv", id |-> id, cols |-> cols, nrows |-> nrows, is_left |-> is_left]

BadFiles == {MissingFile, MalformedFile, EmptyFile}

\* pd.read_csv: the DataFrame, or the exception it raises.
DataFrame(file) ==
    [kind |-> "table", id |-> file.id, cols |-> file.cols, nrows |-> file.nrows,
     is_left |-> file.is_left]

read_csv(file) ==
    CASE file.kind = "csv"       -> [exc |-> "none", df |-> DataFrame(file)]
      [] file.kind = "missing"   -> [exc |-> "FileNotFoundError", df |-> Unbound]
      [] file.kind = "malformed" -> [exc |-> "ParserError", df |-> Unbound]
      [] file.kind = "empty"     -> [exc |-> "EmptyDataError", df |-> Unbound]

\* Python's except clause: does `except cls` catch an exception of class exc?
Exceptions == {"FileNotFoundError", "ParserError", "EmptyDataError",
               "KeyError", "ValueError", "TypeError", "EOFError", "NameError"}

Catches(cls, exc) ==
    CASE cls = "Exception" -> exc \in Exceptions
      [] OTHER             -> exc = cls

-----------------------------------------------------------------------------
(* dataloader.py: HandDataLoader *)

NewLoader == [hand_data |-> NoneVal, emg_data |-> NoneVal]

Returned(self, value, lines) ==
    [self |-> self, ret |-> value, out |-> lines, raised |-> "none"]
Raised(self, exc, lines) ==
    [self |-> self, ret |-> Unbound, out |-> lines, raised |-> exc]

M_LoaderHandlerNarrow == "FileNotFoundError"

\* The except clause of both loaders.
LoaderHandler == "Exception"

M_load_hand_data_clears(self, file) ==
    LET r == read_csv(file) IN
    IF r.exc = "none"
    THEN Returned([self EXCEPT !.hand_data = r.df], r.df, <<"Hand data loaded">>)
    ELSE Returned([self EXCEPT !.hand_data = NoneVal], NoneVal,
                  <<"Error loading hand data">>)

load_hand_data(self, file) ==
    LET r == read_csv(file) IN
    IF r.exc = "none"
    THEN Returned([self EXCEPT !.hand_data = r.df], r.df, <<"Hand data loaded">>)
    ELSE IF Catches(LoaderHandler, r.exc)
         THEN Returned(self, NoneVal, <<"Error loading hand data">>)
         ELSE Raised(self, r.exc, <<>>)

load_emg_data(self, file) ==
    LET r == read_csv(file) IN
    IF r.exc = "none"
    THEN Returned([self EXCEPT !.emg_data = r.df], r.df, <<"EMG data loaded">>)
    ELSE IF Catches(LoaderHandler, r.exc)
         THEN Returned(self, NoneVal, <<"Error loading EMG data">>)
         ELSE Raised(self, r.exc, <<>>)

M_load_all_data_short(self, hand_file, emg_file) ==
    LET h == load_hand_data(self, hand_file) IN
    IF h.ret = NoneVal
    THEN Returned(h.self, <<NoneVal, NoneVal>>, h.out)
    ELSE LET e == load_emg_data(h.self, emg_file) IN
         Returned(e.self, <<h.ret, e.ret>>, h.out \o e.out)

load_all_data(self, hand_file, emg_file) ==
    LET h == load_hand_data(self, hand_file) IN
    IF h.raised # "none"
    THEN h
    ELSE LET e == load_emg_data(h.self, emg_file) IN
         IF e.raised # "none"
         THEN Raised(e.self, e.raised, h.out \o e.out)
         ELSE Returned(e.self, <<h.ret, e.ret>>, h.out \o e.out)

get_basic_info(self) ==
    Returned(self, NoneVal,
             (IF self.hand_data # NoneVal THEN <<"=== Hand Data Info ===">> ELSE <<>>)
             \o (IF self.emg_data # NoneVal THEN <<"=== EMG Data Info ===">> ELSE <<>>))

-----------------------------------------------------------------------------
(* Calls on one HandDataLoader instance (dataloader.py used as a library) *)

NoFile == [kind |-> "no file"]

\* The files the calls are given: unreadable ones and two different tables.
LoaderFiles ==
    BadFiles \cup {CsvFile("A", HandCols, 0, <<>>), CsvFile("B", EmgCols, 0, <<>>)}

\* What a readable file holds, else what was readable before.
Readable(file, before) == IF file.kind = "csv" THEN DataFrame(file) ELSE before

LoaderInit ==
    /\ loader = NewLoader
    /\ ret = NoneVal
    /\ out = <<>>
    /\ raised = "none"
    /\ last = [op |-> "__init__", hand |-> NoFile, emg |-> NoFile]
    /\ ok_hand = NoneVal
    /\ ok_emg = NoneVal
    /\ calls = 0

Effect(r) ==
    /\ loader' = r.self
    /\ ret' = r.ret
    /\ out' = r.out
    /\ raised' = r.raised
    /\ calls' = calls + 1

CallLoadHandData ==
    /\ calls < MaxCalls
    /\ \E f \in LoaderFiles :
        /\ Effect(load_hand_data(loader, f))
        /\ last' = [op |-> "load_hand_data", hand |-> f, emg |-> NoFile]
        /\ ok_hand' = Readable(f, ok_hand)
        /\ ok_emg' = ok_emg
    /\ UNCHANGED <<appVars, fftVars, bandVars>>

CallLoadEmgData ==
    /\ calls < MaxCalls
    /\ \E f \in LoaderFiles :
        /\ Effect(load_emg_data(loader, f))
        /\ last' = [op |-> "load_emg_data", hand |-> NoFile, emg |-> f]
        /\ ok_hand' = ok_hand
        /\ ok_emg' = Readable(f, ok_emg)
    /\ UNCHANGED <<appVars, fftVars, bandVars>>

CallLoadAllData ==
    /\ calls < MaxCalls
    /\ \E f \in LoaderFiles, g \in LoaderFiles :
        /\ Effect(load_all_data(loader, f, g))
        /\ last' = [op |-> "load_all_data", hand |-> f, emg |-> g]
        /\ ok_hand' = Readable(f, ok_hand)
        /\ ok_emg' = Readable(g, ok_emg)
    /\ UNCHANGED <<appVars, fftVars, bandVars>>

CallGetBasicInfo ==
    /\ calls < MaxCalls
    /\ Effect(get_basic_info(loader))
    /\ last' = [op |-> "get_basic_info", hand |-> NoFile, emg |-> NoFile]
    /\ UNCHANGED <<ok_hand, ok_emg>>
    /\ UNCHANGED <<appVars, fftVars, bandVars>>

-----------------------------------------------------------------------------
(* sample_app.py *)

\* A cell of the is_left column as read_csv parses it; "NaN" is a missing cell.
IsLeftValues == {"True", "False", "NaN"}

\* pandas' element-wise ==; NaN equals nothing.
PyEq(v, w) == v # "NaN" /\ v = w

\* hand_data[hand_data['is_left'] == flag], as the set of selected row numbers.
SelectRows(table, flag) ==
    {i \in 1..Len(table.is_left) : PyEq(table.is_left[i], flag)}

\* The result of one function of the application.
AppResult(fn, hand, emg, lines, exc, split, left, right, png) ==
    [fn |-> fn, hand |-> hand, emg |-> emg, out |-> lines, raised |-> exc,
     split |-> split, left_hand |-> left, right_hand |-> right, png |-> png]

NotLoaded == [kind |-> "not loaded"]

M_visualize_guard_and(hand_data, emg_data) == hand_data = NoneVal /\ emg_data = NoneVal

\* sample_app.py line 17
visualize_guard(hand_data, emg_data) == hand_data = NoneVal \/ emg_data = NoneVal

M_split_both_true(hand_data) ==
    [left_hand  |-> SelectRows(hand_data, "True"),
     right_hand |-> SelectRows(hand_data, "True")]

\* sample_app.py lines 50-51
split_hands(hand_data) ==
    [left_hand  |-> SelectRows(hand_data, "True"),
     right_hand |-> SelectRows(hand_data, "False")]

visualize_data(hand_file, emg_file) ==
    LET l == load_all_data(NewLoader, hand_file, emg_file)
        hand_data == l.ret[1]
        emg_data  == l.ret[2]
        fn == "visualize_data"
    IN  IF l.raised # "none"
        THEN AppResult(fn, NotLoaded, NotLoaded, l.out, l.raised, FALSE, {}, {}, {})
        ELSE IF visualize_guard(hand_data, emg_data)
        THEN AppResult(fn, hand_data, emg_data,
                       l.out \o <<"Error: Could not load data files">>,
                       "none", FALSE, {}, {}, {})
        \* panel 1: hand_data['timestamp'], hand_data['thumb_mcp_quat_0']
        ELSE IF hand_data = NoneVal                  \* None['timestamp']
        THEN AppResult(fn, hand_data, emg_data, l.out, "TypeError", FALSE, {}, {}, {})
        ELSE IF ~({"timestamp", "thumb_mcp_quat_0"} \subseteq hand_data.cols)
        THEN AppResult(fn, hand_data, emg_data, l.out, "KeyError", FALSE, {}, {}, {})
        \* panel 2: emg_data['Timestamp'], emg_data['Sensor_1'..'Sensor_8']
        ELSE IF emg_data = NoneVal                   \* None['Timestamp']
        THEN AppResult(fn, hand_data, emg_data, l.out, "TypeError", FALSE, {}, {}, {})
        ELSE IF ~(EmgCols \subseteq emg_data.cols)
        THEN AppResult(fn, hand_data, emg_data, l.out, "KeyError", FALSE, {}, {}, {})
        \* panel 3: hand_data['is_left']
        ELSE IF "is_left" \notin hand_data.cols
        THEN AppResult(fn, hand_data, emg_data, l.out, "KeyError", FALSE, {}, {}, {})
        ELSE LET s == split_hands(hand_data) IN
             AppResult(fn, hand_data, emg_data,
                       l.out \o <<"Visualization saved as 'hand_emg_analysis.png'">>,
                       "none", TRUE, s.left_hand, s.right_hand,
                       {"hand_emg_analysis.png"})

analyze_finger_movement(hand_file) ==
    LET l == load_hand_data(NewLoader, hand_file)
        hand_data == l.ret
        fn == "analyze_finger_movement"
    IN  IF l.raised # "none"
        THEN AppResult(fn, NotLoaded, NotLoaded, l.out, l.raised, FALSE, {}, {}, {})
        ELSE IF hand_data = NoneVal
        THEN AppResult(fn, hand_data, NotLoaded, l.out, "none", FALSE, {}, {}, {})
        ELSE IF ~({"timestamp", "index_mcp_quat_0", "index_pip_quat_0",
                   "index_dip_quat_0"} \subseteq hand_data.cols)
        THEN AppResult(fn, hand_data, NotLoaded, l.out, "KeyError", FALSE, {}, {}, {})
        ELSE AppResult(fn, hand_data, NotLoaded,
                       l.out \o <<"Index finger analysis saved as 'index_finger_analysis.png'">>,
                       "none", FALSE, {}, {}, {"index_finger_analysis.png"})

compare_emg_patterns(emg_file) ==
    LET l == load_emg_data(NewLoader, emg_file)
        emg_data == l.ret
        fn == "compare_emg_patterns"
    IN  IF l.raised # "none"
        THEN AppResult(fn, NotLoaded, NotLoaded, l.out, l.raised, FALSE, {}, {}, {})
        ELSE IF emg_data = NoneVal
        THEN AppResult(fn, NotLoaded, emg_data, l.out, "none", FALSE, {}, {}, {})
        ELSE IF ~(EmgCols \subseteq emg_data.cols)
        THEN AppResult(fn, NotLoaded, emg_data, l.out, "KeyError", FALSE, {}, {}, {})
        ELSE AppResult(fn, NotLoaded, emg_data,
                       l.out \o <<"EMG sensor comparison saved as 'emg_sensors_comparison.png'">>,
                       "none", FALSE, {}, {}, {"emg_sensors_comparison.png"})

\* The is_left columns of hand-pose tables of up to MaxRows rows.
IsLeftColumns == UNION {[1..k -> IsLeftValues] : k \in 0..MaxRows}

\* What hand_data_log.csv can be when a function opens it.
AppHandFiles ==
    BadFiles
    \cup {CsvFile("hand", HandCols, Len(c), c) : c \in IsLeftColumns}
    \cup {CsvFile("hand", HandCols \ {"is_left"}, 0, <<>>),
          CsvFile("hand", HandCols \ {"index_dip_quat_0"}, 0, <<>>)}

\* What emg_data.csv can be when a function opens it.
AppEmgFiles ==
    BadFiles
    \cup {CsvFile("emg", EmgCols, 0, <<>>),
          CsvFile("emg", EmgCols \ {"Sensor_8"}, 0, <<>>)}

AppInit ==
    /\ app_pc = "visualize_data"
    /\ app_last = AppResult("__main__", NotLoaded, NotLoaded, <<>>, "none",
                            FALSE, {}, {}, {})
    /\ saved = {}

\* A function returns and __main__ goes on, or its exception ends the script.
AppStep(r, next) ==
    /\ app_last' = r
    /\ saved' = saved \cup r.png
    /\ app_pc' = IF r.raised = "none" THEN next ELSE "traceback"

RunVisualizeData ==
    /\ app_pc = "visualize_data"
    /\ \E f \in AppHandFiles, g \in AppEmgFiles :
        AppStep(visualize_data(f, g), "analyze_finger_movement")
    /\ UNCHANGED <<loaderVars, fftVars, bandVars>>

RunAnalyzeFingerMovement ==
    /\ app_pc = "analyze_finger_movement"
    /\ \E f \in AppHandFiles :
        AppStep(analyze_finger_movement(f), "compare_emg_patterns")
    /\ UNCHANGED <<loaderVars, fftVars, bandVars>>

RunCompareEmgPatterns ==
    /\ app_pc = "compare_emg_patterns"
    /\ \E g \in AppEmgFiles :
        AppStep(compare_emg_patterns(g), "exit")
    /\ UNCHANGED <<loaderVars, fftVars, bandVars>>

-----------------------------------------------------------------------------
(* fft/emg_fft_analysis.py *)

SAMPLING_RATE == 200

\* frequency_bands, lines 34-40
frequency_bands ==
    << [low |-> 0,   high |-> 20,  name |-> "Delta-Theta (0-20Hz)"],
       [low |-> 20,  high |-> 50,  name |-> "Low Beta (20-50Hz)"],
       [low |-> 50,  high |-> 100, name |-> "High Beta (50-100Hz)"],
       [low |-> 100, high |-> 200, name |-> "Gamma (100-200Hz)"],
       [low |-> 200, high |-> 500, name |-> "High Gamma (200-500Hz)"] >>

Bands == DOMAIN frequency_bands

M_InBandHalfOpen(num, den, low, high) == num >= low * den /\ num < high * den

\* (xf >= low) & (xf <= high) for the frequency num/den, den > 0
InBand(num, den, low, high) == num >= low * den /\ num <= high * den

M_SpectrumLenWithNyquist(len) == len \div 2 + 1

\* the slice [:n//2] of xf and [0:n//2] of psd, lines 28 and 31
SpectrumLen(len) == len \div 2

\* fftfreq(n, 1/SAMPLING_RATE)[:n//2]: bin i (from 0) is i*SAMPLING_RATE/n
FreqAxis(len) == [i \in 1..SpectrumLen(len) |-> (i - 1) * SAMPLING_RATE]

\* band_mask, line 47: one boolean per entry of xf
band_mask(freqs, den, band) ==
    [i \in 1..Len(freqs) |-> InBand(freqs[i], den, band.low, band.high)]

\* arr[mask]: the entries of arr the mask selects, in order
RECURSIVE Compress(_, _)
Compress(arr, mask) ==
    IF arr = <<>> \/ mask = <<>>
    THEN <<>>
    ELSE (IF Head(mask) THEN <<Head(arr)>> ELSE <<>>)
         \o Compress(Tail(arr), Tail(mask))

\* any(band_mask)
AnyTrue(mask) == \E i \in 1..Len(mask) : mask[i]

\* scipy.signal.find_peaks(x, height=h): the middle of every run of equal
\* samples that is higher than the sample before and the sample after it and
\* at least h high; a run touching either end of x is no peak.
find_peaks(x, h) ==
    {m \in 1..Len(x) :
        \E l \in 2..(Len(x) - 1), r \in 2..(Len(x) - 1) :
            /\ l <= r
            /\ \A k \in l..r : x[k] = x[l]
            /\ x[l - 1] < x[l]
            /\ x[r + 1] < x[l]
            /\ m = (l + r) \div 2
            /\ x[m] >= h}

\* np.argmax over the positions idx of x: the first position of the maximum
ArgMax(x, idx) ==
    CHOOSE i \in idx :
        /\ \A j \in idx : x[j] <= x[i]
        /\ \A j \in idx : x[j] = x[i] => i <= j

NoData == [kind |-> "no data"]

M_report_band_no_peak_search(freqs, den, mags, band) ==
    LET mask == band_mask(freqs, den, band)
        band_psd == Compress(mags, mask)
        band_freq == Compress(freqs, mask)
    IN  IF ~AnyTrue(mask)
        THEN NoData
        ELSE LET max_idx == ArgMax(band_psd, 1..Len(band_psd)) IN
             [kind |-> "max", idx |-> max_idx,
              freq |-> band_freq[max_idx], value |-> band_psd[max_idx]]

\* one turn of the report loop, lines 45-70
report_band(freqs, den, mags, band) ==
    LET mask == band_mask(freqs, den, band)
        band_psd == Compress(mags, mask)
        band_freq == Compress(freqs, mask)
        peaks == find_peaks(band_psd, 0)
    IN  IF ~AnyTrue(mask)
        THEN NoData
        ELSE IF peaks # {}
        THEN LET max_peak_idx == ArgMax(band_psd, peaks) IN
             [kind |-> "peak", idx |-> max_peak_idx,
              freq |-> band_freq[max_peak_idx], value |-> band_psd[max_peak_idx]]
        ELSE LET max_idx == ArgMax(band_psd, 1..Len(band_psd)) IN
             [kind |-> "max", idx |-> max_idx,
              freq |-> band_freq[max_idx], value |-> band_psd[max_idx]]

NoAnnotation == [kind |-> "none"]

\* one turn of the annotation loop, lines 97-115
annotate_band(freqs, den, mags, band) ==
    LET mask == band_mask(freqs, den, band)
        band_psd == Compress(mags, mask)
        band_freq == Compress(freqs, mask)
    IN  IF ~AnyTrue(mask)
        THEN NoAnnotation
        ELSE LET max_idx == ArgMax(band_psd, 1..Len(band_psd)) IN
             IF band_psd[max_idx] > 0
             THEN [kind |-> "text", idx |-> max_idx,
                   freq |-> band_freq[max_idx], value |-> band_psd[max_idx]]
             ELSE NoAnnotation

-----------------------------------------------------------------------------
(* The analyzer run as a script *)

\* The column sets of the CSV the analyzer is given.
FftColumnSets == {{"emg"}, {"Timestamp", "Sensor_1"}}

\* What FILENAME can resolve to.
FftFiles ==
    BadFiles
    \cup {CsvFile("emg", c, k, <<>>) : c \in FftColumnSets, k \in 0..MaxN}

\* What input() gives at line 21: a column name, or EOFError on a closed stdin.
Answers == {"Sensor_1", "no_such_column", "EOF"}

\* The magnitude arrays 2.0/n * np.abs(yf[0:n//2]) can be: len magnitudes, none
\* below 0, that add up to at most total.
RECURSIVE Spectra(_, _)
Spectra(len, total) ==
    IF len = 0
    THEN {<<>>}
    ELSE UNION {{<<v>> \o rest : rest \in Spectra(len - 1, total - v)} : v \in 0..total}

NotPrinted == [kind |-> "not printed"]

FftInit ==
    /\ fft_pc = "read_csv"
    /\ fft_file \in FftFiles
    /\ df = Unbound
    /\ emg_column = "emg"
    /\ n = 0
    /\ xf = <<>>
    /\ psd = <<>>
    /\ report = [b \in Bands |-> NotPrinted]
    /\ annot = [b \in Bands |-> NotPrinted]
    /\ fft_exc = "none"
    /\ fft_out = <<>>
    /\ fft_escaped = "none"
    /\ fft_saved = FALSE

\* an exception leaves the try block for the except clauses
Throw(exc) ==
    /\ fft_exc' = exc
    /\ fft_pc' = "except"

\* lines 14-16
FftReadCsv ==
    /\ fft_pc = "read_csv"
    /\ LET r == read_csv(fft_file) IN
       IF r.exc = "none"
       THEN /\ df' = r.df
            /\ fft_pc' = "check_column"
            /\ UNCHANGED fft_exc
       ELSE /\ Throw(r.exc)
            /\ UNCHANGED df
    /\ UNCHANGED <<fft_file, emg_column, n, xf, psd, report, annot, fft_out,
                   fft_escaped, fft_saved>>
    /\ UNCHANGED <<loaderVars, appVars, bandVars>>

\* lines 19-21
FftCheckColumn ==
    /\ fft_pc = "check_column"
    /\ IF emg_column \in df.cols
       THEN /\ fft_pc' = "transform"
            /\ UNCHANGED <<emg_column, fft_exc>>
       ELSE \E answer \in Answers :
                IF answer = "EOF"
                THEN /\ Throw("EOFError")
                     /\ UNCHANGED emg_column
                ELSE /\ emg_column' = answer
                     /\ fft_pc' = "transform"
                     /\ UNCHANGED fft_exc
    /\ UNCHANGED <<fft_file, df, n, xf, psd, report, annot, fft_out,
                   fft_escaped, fft_saved>>
    /\ UNCHANGED <<loaderVars, appVars, bandVars>>

\* lines 23-31
FftTransform ==
    /\ fft_pc = "transform"
    /\ IF emg_column \notin df.cols
       THEN /\ Throw("KeyError")                    \* df[EMG_COLUMN]
            /\ UNCHANGED <<n, xf, psd>>
       ELSE /\ n' = df.nrows
            /\ IF df.nrows = 0
               THEN /\ Throw("ValueError")          \* fft of no samples
                    /\ UNCHANGED <<xf, psd>>
               ELSE /\ xf' = FreqAxis(df.nrows)
                    /\ psd' \in Spectra(SpectrumLen(df.nrows), MaxTotalMag)
                    /\ fft_pc' = "report"
                    /\ UNCHANGED fft_exc
    /\ UNCHANGED <<fft_file, df, emg_column, report, annot, fft_out,
                   fft_escaped, fft_saved>>
    /\ UNCHANGED <<loaderVars, appVars, bandVars>>

\* lines 43-72
FftReport ==
    /\ fft_pc = "report"
    /\ report' = [b \in Bands |-> report_band(xf, n, psd, frequency_bands[b])]
    /\ fft_pc' = "plot"
    /\ UNCHANGED <<fft_file, df, emg_column, n, xf, psd, annot, fft_exc, fft_out,
                   fft_escaped, fft_saved>>
    /\ UNCHANGED <<loaderVars, appVars, bandVars>>

\* lines 75-131
FftPlotAndSave ==
    /\ fft_pc = "plot"
    /\ annot' = [b \in Bands |-> annotate_band(xf, n, psd, frequency_bands[b])]
    /\ fft_saved' = TRUE
    /\ fft_pc' = "exit"
    /\ UNCHANGED <<fft_file, df, emg_column, n, xf, psd, report, fft_exc, fft_out,
                   fft_escaped>>
    /\ UNCHANGED <<loaderVars, appVars, bandVars>>

\* lines 133-134
FftExceptFileNotFound ==
    /\ fft_pc = "except"
    /\ Catches("FileNotFoundError", fft_exc)
    /\ fft_out' = <<"file not found">>
    /\ fft_pc' = "exit"
    /\ UNCHANGED <<fft_file, df, emg_column, n, xf, psd, report, annot, fft_exc,
                   fft_escaped, fft_saved>>
    /\ UNCHANGED <<loaderVars, appVars, bandVars>>

\* lines 135-138: the handler reads df, which read_csv never bound if it raised
FftExceptException ==
    /\ fft_pc = "except"
    /\ ~Catches("FileNotFoundError", fft_exc)
    /\ Catches("Exception", fft_exc)
    /\ IF df = Unbound
       THEN /\ fft_out' = <<"error occurred", "available columns:">>
            /\ fft_escaped' = "NameError"
            /\ fft_pc' = "traceback"
       ELSE /\ fft_out' = <<"error occurred", "available columns:", "df.columns">>
            /\ fft_escaped' = "none"
            /\ fft_pc' = "exit"
    /\ UNCHANGED <<fft_file, df, emg_column, n, xf, psd, report, annot, fft_exc,
                   fft_saved>>
    /\ UNCHANGED <<loaderVars, appVars, bandVars>>

-----------------------------------------------------------------------------
(* The band test of line 47 applied to one frequency value *)

BandInit ==
    /\ x_num \in 0..(500 * FreqDen)
    /\ band_pc = "start"
    /\ hit = {}

ApplyBandTest ==
    /\ band_pc = "start"
    /\ hit' = {b \in Bands :
                 InBand(x_num, FreqDen, frequency_bands[b].low, frequency_bands[b].high)}
    /\ band_pc' = "done"
    /\ UNCHANGED x_num
    /\ UNCHANGED <<loaderVars, appVars, fftVars>>

-----------------------------------------------------------------------------
(* Specifications: each part of the repository runs on its own *)

LoaderIdle ==
    /\ loader = NewLoader /\ ret = NoneVal /\ out = <<>> /\ raised = "none"
    /\ last = [op |-> "__init__", hand |-> NoFile, emg |-> NoFile]
    /\ ok_hand = NoneVal /\ ok_emg = NoneVal /\ calls = 0

AppIdle ==
    /\ app_pc = "not run"
    /\ app_last = AppResult("__main__", NotLoaded, NotLoaded, <<>>, "none",
                            FALSE, {}, {}, {})
    /\ saved = {}

FftIdle ==
    /\ fft_pc = "not run" /\ fft_file = MissingFile /\ df = Unbound
    /\ emg_column = "emg" /\ n = 0 /\ xf = <<>> /\ psd = <<>>
    /\ report = [b \in Bands |-> NotPrinted]
    /\ annot = [b \in Bands |-> NotPrinted]
    /\ fft_exc = "none" /\ fft_out = <<>> /\ fft_escaped = "none"
    /\ fft_saved = FALSE

BandIdle == x_num = 0 /\ band_pc = "not run" /\ hit = {}

\* calls on one HandDataLoader instance
LoaderOnlyInit == LoaderInit /\ AppIdle /\ FftIdle /\ BandIdle

LoaderNext ==
    \/ CallLoadHandData
    \/ CallLoadEmgData
    \/ CallLoadAllData
    \/ CallGetBasicInfo

Spec == LoaderOnlyInit /\ [][LoaderNext]_vars

\* python sample_app.py
AppOnlyInit == LoaderIdle /\ AppInit /\ FftIdle /\ BandIdle

AppNext ==
    \/ RunVisualizeData
    \/ RunAnalyzeFingerMovement
    \/ RunCompareEmgPatterns

SpecApp == AppOnlyInit /\ [][AppNext]_vars

\* python fft/emg_fft_analysis.py
FftOnlyInit == LoaderIdle /\ AppIdle /\ FftInit /\ BandIdle

FftNext ==
    \/ FftReadCsv
    \/ FftCheckColumn
    \/ FftTransform
    \/ FftReport
    \/ FftPlotAndSave
    \/ FftExceptFileNotFound
    \/ FftExceptException

SpecFft == FftOnlyInit /\ [][FftNext]_vars

\* the band test over the frequency values of [0, 500] Hz
BandOnlyInit == LoaderIdle /\ AppIdle /\ FftIdle /\ BandInit

BandNext == ApplyBandTest

SpecBand == BandOnlyInit /\ [][BandNext]_vars

-----------------------------------------------------------------------------
(* Properties of the loader (specification Spec) *)

\* What a load of this file is expected to return.
Expected(file) == IF file.kind = "csv" THEN DataFrame(file) ELSE NoneVal

\* C1: load_hand_data and load_emg_data never let an exception escape: a file
\* that cannot be read (missing, malformed, empty) gives one logged error line
\* and the result None; a readable file gives its parsed table.
C1_LoadersNeverRaise ==
    /\ last.op = "load_hand_data" =>
         /\ raised = "none"
         /\ last.hand.kind = "csv" => ret = DataFrame(last.hand)
         /\ last.hand.kind # "csv" =>
              ret = NoneVal /\ out = <<"Error loading hand data">>
    /\ last.op = "load_emg_data" =>
         /\ raised = "none"
         /\ last.emg.kind = "csv" => ret = DataFrame(last.emg)
         /\ last.emg.kind # "csv" =>
              ret = NoneVal /\ out = <<"Error loading EMG data">>

\* C1 witness: a load of a malformed CSV has returned None with its error line.
C1_Witness ==
    /\ last.op = "load_emg_data"
    /\ last.emg = MalformedFile
    /\ ret = NoneVal
    /\ out = <<"Error loading EMG data">>

\* C2: load_all_data invokes both loaders whatever the first one's outcome:
\* each element of the returned pair depends only on its own file, both
\* loaders have printed their line, and a hand (EMG) load leaves the stored
\* EMG (hand) table as it was.
C2_LoadAllIndependent ==
    /\ [](last.op = "load_all_data" =>
            /\ raised = "none"
            /\ ret = <<Expected(last.hand), Expected(last.emg)>>
            /\ Len(out) = 2
            /\ out[1] \in {"Hand data loaded", "Error loading hand data"}
            /\ out[2] \in {"EMG data loaded", "Error loading EMG data"})
    /\ [][/\ last'.op = "load_hand_data" => loader'.emg_data = loader.emg_data
          /\ last'.op = "load_emg_data" => loader'.hand_data = loader.hand_data]_vars

\* C2 witness: load_all_data whose hand file failed and whose EMG file loaded.
C2_Witness ==
    /\ last.op = "load_all_data"
    /\ last.hand.kind # "csv"
    /\ last.emg.kind = "csv"
    /\ ret = <<NoneVal, DataFrame(last.emg)>>
    /\ loader.emg_data = DataFrame(last.emg)

\* C10: each slot holds the table of the most recent successful load of its
\* kind, or None if none succeeded (a failed load leaves it unchanged);
\* get_basic_info prints a table's section exactly when its slot is not None
\* and changes no slot.
C10_SlotsKeepLastSuccess ==
    /\ loader.hand_data = ok_hand
    /\ loader.emg_data = ok_emg
    /\ last.op = "get_basic_info" =>
         /\ ("=== Hand Data Info ===" \in {out[i] : i \in 1..Len(out)})
              <=> (ok_hand # NoneVal)
         /\ ("=== EMG Data Info ===" \in {out[i] : i \in 1..Len(out)})
              <=> (ok_emg # NoneVal)

\* C10 witness: a load has returned None while the slot still holds the table
\* of an earlier load.
C10_Witness ==
    /\ last.op = "load_hand_data"
    /\ ret = NoneVal
    /\ loader.hand_data # NoneVal

-----------------------------------------------------------------------------
(* Properties of the sample application (specification SpecApp) *)

Lines(seq) == {seq[i] : i \in 1..Len(seq)}

\* C9: a function whose required table failed to load saves no PNG and an
\* error has been logged; visualize_data aborts when either table is absent.
C9_AbortWhenLoadFailed ==
    /\ (app_last.fn = "visualize_data"
        /\ (app_last.hand = NoneVal \/ app_last.emg = NoneVal)) =>
         /\ app_last.raised = "none"
         /\ "hand_emg_analysis.png" \notin saved
         /\ "Error: Could not load data files" \in Lines(app_last.out)
    /\ (app_last.fn = "analyze_finger_movement" /\ app_last.hand = NoneVal) =>
         /\ app_last.raised = "none"
         /\ "index_finger_analysis.png" \notin saved
         /\ "Error loading hand data" \in Lines(app_last.out)
    /\ (app_last.fn = "compare_emg_patterns" /\ app_last.emg = NoneVal) =>
         /\ app_last.raised = "none"
         /\ "emg_sensors_comparison.png" \notin saved
         /\ "Error loading EMG data" \in Lines(app_last.out)

\* C9 witness: visualize_data has aborted with the hand table loaded and the
\* EMG table absent.
C9_Witness ==
    /\ app_last.fn = "visualize_data"
    /\ app_last.hand # NoneVal
    /\ app_last.hand # NotLoaded
    /\ app_last.emg = NoneVal
    /\ "hand_emg_analysis.png" \notin saved

\* The rows of the loaded hand table.
HandRows == 1..Len(app_last.hand.is_left)

\* C5 as stated: for every hand table with an is_left column the two subsets
\* share no row and together hold every row.
C5_SplitPartitionsEveryTable ==
    (app_last.fn = "visualize_data" /\ app_last.split) =>
        /\ app_last.left_hand \cap app_last.right_hand = {}
        /\ app_last.left_hand \cup app_last.right_hand = HandRows
        /\ Cardinality(app_last.left_hand) + Cardinality(app_last.right_hand)
             = Len(app_last.hand.is_left)

\* C5 amended: the two subsets never share a row, they hold exactly the rows
\* whose is_left is True or False, and so they hold every row when the column
\* is boolean (no missing cell).
C5_SplitPartitionsBooleanTable ==
    (app_last.fn = "visualize_data" /\ app_last.split) =>
        /\ app_last.left_hand \cap app_last.right_hand = {}
        /\ app_last.left_hand \cup app_last.right_hand
             = {i \in HandRows : app_last.hand.is_left[i] \in {"True", "False"}}
        /\ (\A i \in HandRows : app_last.hand.is_left[i] \in {"True", "False"}) =>
             /\ app_last.left_hand \cup app_last.right_hand = HandRows
             /\ Cardinality(app_last.left_hand) + Cardinality(app_last.right_hand)
                  = Len(app_last.hand.is_left)

\* C5 witness: a boolean column with rows of both hands has been split.
C5_Witness ==
    /\ app_last.fn = "visualize_data"
    /\ app_last.split
    /\ \A i \in HandRows : app_last.hand.is_left[i] \in {"True", "False"}
    /\ app_last.left_hand # {}
    /\ app_last.right_hand # {}

-----------------------------------------------------------------------------
(* Properties of the band test (specification SpecBand) *)

\* C4: every frequency value of [0, 500] Hz passes the test of at least one
\* band, and a value on a shared boundary (20, 50, 100, 200 Hz) passes the
\* test of both adjacent bands.
C4_BandsExhaustiveInclusive ==
    band_pc = "done" =>
        /\ hit # {}
        /\ x_num = 20 * FreqDen => hit = {1, 2}
        /\ x_num = 50 * FreqDen => hit = {2, 3}
        /\ x_num = 100 * FreqDen => hit = {3, 4}
        /\ x_num = 200 * FreqDen => hit = {4, 5}

\* C4 witness: the test has been applied to exactly 20 Hz.
C4_Witness ==
    /\ band_pc = "done"
    /\ x_num = 20 * FreqDen
    /\ 1 \in hit
    /\ 2 \in hit

-----------------------------------------------------------------------------
(* Properties of the analyzer script (specification SpecFft) *)

\* The script has come to an end after an exception left the try block.
FftFailed == fft_pc \in {"exit", "traceback"} /\ fft_exc # "none"

\* C3: on every failure path the script prints an error message and ends with
\* no exception leaving its handlers and without saving emg_fft_analysis.png.
C3_FailuresReported ==
    FftFailed =>
        /\ fft_out # <<>>
        /\ fft_escaped = "none"
        /\ ~fft_saved

\* The spectrum has been computed.
FftTransformed == fft_pc \in {"report", "plot"} \/ (fft_pc = "exit" /\ fft_saved)

\* C6 as stated: the spectrum keeps floor(N/2)+1 bins, and the frequency axis
\* and psd have that many entries.
C6_KeepsHalfPlusOne ==
    (FftTransformed /\ n >= 1) =>
        /\ 2 * (Len(xf) - 1) <= n
        /\ n < 2 * (Len(xf) - 1) + 2
        /\ Len(psd) = Len(xf)

\* C6 amended: the spectrum keeps the first floor(N/2) bins (bins 0 to
\* floor(N/2)-1, all below the Nyquist frequency), and the frequency axis and
\* psd have that many entries.
C6_KeepsHalf ==
    (FftTransformed /\ n >= 1) =>
        /\ 2 * Len(xf) <= n
        /\ n < 2 * Len(xf) + 2
        /\ Len(psd) = Len(xf)
        /\ \A i \in 1..Len(xf) :
              /\ xf[i] = (i - 1) * SAMPLING_RATE
              /\ 2 * xf[i] < SAMPLING_RATE * n

\* C6 witness: an odd number of samples has been transformed.
C6_Witness ==
    /\ fft_pc = "report"
    /\ n = 5
    /\ Len(xf) = 2
    /\ Len(psd) = 2

\* The bins of xf within [low, high] of band b (xf is increasing: a range).
BandBins(b) ==
    {i \in 1..Len(xf) :
        xf[i] >= frequency_bands[b].low * n /\ xf[i] <= frequency_bands[b].high * n}

\* Bins strictly higher than both neighbours, inside the bins lo..hi.
StrictPeaks(lo, hi) ==
    {i \in (lo + 1)..(hi - 1) :
        psd[i] > psd[i - 1] /\ psd[i] > psd[i + 1] /\ psd[i] >= 0}

\* Runs l..r of equal bins inside lo..hi, higher than the bin before and the
\* bin after the run.
RunPeaks(lo, hi) ==
    {lr \in ((lo + 1)..(hi - 1)) \X ((lo + 1)..(hi - 1)) :
        /\ lr[1] <= lr[2]
        /\ psd[lr[1] - 1] < psd[lr[1]]
        /\ psd[lr[2] + 1] < psd[lr[1]]
        /\ \A k \in lr[1]..lr[2] : psd[k] = psd[lr[1]]
        /\ psd[lr[1]] >= 0}

Middle(lr) == (lr[1] + lr[2]) \div 2

\* The largest magnitude among the bins.
MaxOf(bins) == CHOOSE v \in {psd[i] : i \in bins} : \A i \in bins : psd[i] <= v

\* The report line names the sample at bin i.
Names(line, i) == line.freq = xf[i] /\ line.value = psd[i]

\* The textual report has been printed.
FftReported == fft_pc = "plot" \/ (fft_pc = "exit" /\ fft_saved)

\* C7 as stated: 'no data' for a band without bins; else the largest sample
\* strictly higher than both neighbours if there is one; else the band's
\* global maximum; never the first or last sample as a local maximum.
C7_ReportStrictLocalMax ==
    FftReported =>
        \A b \in Bands :
            LET bins == BandBins(b) IN
            IF bins = {}
            THEN report[b] = NoData
            ELSE LET lo == CHOOSE i \in bins : \A j \in bins : i <= j
                     hi == CHOOSE i \in bins : \A j \in bins : j <= i
                     peaks == StrictPeaks(lo, hi)
                 IN  /\ peaks # {} =>
                          \E i \in peaks :
                              /\ Names(report[b], i)
                              /\ \A j \in peaks : psd[j] <= psd[i]
                     /\ peaks = {} => report[b].value = MaxOf(bins)
                     /\ report[b].kind = "peak" =>
                          report[b].freq # xf[lo] /\ report[b].freq # xf[hi]

\* C7 amended: 'no data' for a band without bins; else, if the band has a run
\* of one or more equal samples higher than the sample before and the sample
\* after it, the middle sample of the highest such run (the first on a tie);
\* else the band's global maximum (the first on a tie); never the first or
\* last sample as a local maximum.
C7_ReportRunLocalMax ==
    FftReported =>
        \A b \in Bands :
            LET bins == BandBins(b) IN
            IF bins = {}
            THEN report[b] = NoData
            ELSE LET lo == CHOOSE i \in bins : \A j \in bins : i <= j
                     hi == CHOOSE i \in bins : \A j \in bins : j <= i
                     runs == RunPeaks(lo, hi)
                     top == MaxOf(bins)
                 IN  /\ runs # {} =>
                          /\ report[b].kind = "peak"
                          /\ \E lr \in runs :
                               /\ Names(report[b], Middle(lr))
                               /\ \A other \in runs :
                                    /\ psd[other[1]] <= psd[lr[1]]
                                    /\ psd[other[1]] = psd[lr[1]] => lr[1] <= other[1]
                          /\ report[b].freq # xf[lo]
                          /\ report[b].freq # xf[hi]
                     /\ runs = {} =>
                          /\ report[b].kind = "max"
                          /\ \E i \in bins :
                               /\ Names(report[b], i)
                               /\ psd[i] = top
                               /\ \A j \in bins : psd[j] = top => i <= j

\* C7 witness: one report with a band without data, a band reported by its
\* global maximum, and a band whose peak is the middle of a run of two equal
\* samples.
C7_Witness ==
    /\ fft_pc = "plot"
    /\ \E b \in Bands : report[b] = NoData
    /\ \E b \in Bands : report[b].kind = "max"
    /\ \E b \in Bands :
          /\ report[b].kind = "peak"
          /\ \E i \in 1..(Len(psd) - 1) :
                psd[i] = psd[i + 1] /\ Names(report[b], i)

\* C8: for every band with data (and a reported peak above 0, where a text
\* can be drawn on the dB axis) the annotation is at the sample the textual
\* report names as the band's peak.
C8_AnnotationAtReportedPeak ==
    (fft_pc = "exit" /\ fft_saved) =>
        \A b \in Bands :
            (report[b] # NoData /\ report[b].value > 0) =>
                /\ annot[b].kind = "text"
                /\ annot[b].freq = report[b].freq
                /\ annot[b].value = report[b].value

====
